---- MODULE Spec2Model ----
(***************************************************************************)
(* rocon_concert: the conductor's ConcertClient (invitation state machine, *)
(* graveyard_client.py) and the service manager's ConcertServiceInstance   *)
(* (process supervisor, concert_service_instance.py).                      *)
(*                                                                         *)
(* The two classes share no state.  Spec is the ConcertClient, SvcSpec the *)
(* ConcertServiceInstance; each leaves the other's variables alone.        *)
(***************************************************************************)
EXTENDS Integers, Sequences, FiniteSets, TLC

VARIABLES
    \* ---- ConcertClient (graveyard_client.py, __slots__ 36-49) ----
    phase,                  \* "new" before __init__, "live" after it returned, "failed" after it raised
    error,                  \* what __init__ / to_msg_format raised last ("none" when nothing)
    pulled,                 \* the remote rules the gateway holds pulled for this client
    is_invited,
    _is_ready_for_action,
    is_blocking,
    is_invited_elsewhere,
    client_status,          \* msg.client_status
    last,                   \* the last call on the client: arguments, what it did, what it returned
    \* ---- ConcertServiceInstance (concert_service_instance.py) ----
    enabled,                \* data.enabled
    proc,                   \* self.proc: 0 for None, else the child it is the handle of
    child,                  \* each child process: "unborn", "running", "exited" (not waited for), "reaped"
    enable_error,           \* self.enable_error: "unset" until first assigned, then "False" / "True"
    enable_error_message,   \* self.enable_error_message: 0 until first assigned, then the worker whose spawn error it holds
    shutdown,               \* rospy.is_shutdown()
    nenable,                \* enable() calls so far: the worker threads started
    wpc,                    \* each worker thread's position in run()
    cb,                     \* per worker, whether it has called update_callback at line 94
    ctl,                    \* the control thread: its position in enable() / disable() and their locals
    ret                     \* what the call the control thread has just completed returned

clientVars == <<phase, error, pulled, is_invited, _is_ready_for_action, is_blocking,
                is_invited_elsewhere, client_status, last>>

svcVars == <<enabled, proc, child, enable_error, enable_error_message, shutdown,
             nenable, wpc, cb, ctl, ret>>

vars == <<clientVars, svcVars>>

(***************************************************************************)
(* ConcertClient                                                           *)
(***************************************************************************)

\* The four services pulled at construction (lines 120 and 140).
PulledServices == {"platform_info", "list_apps", "status", "invite"}

\* rapp_manager_msgs.ErrorCodes as far as invite() tells them apart.
BlockingCodes == {"INVITING_CONTROLLER_NOT_WHITELISTED",
                  "INVITING_CONTROLLER_BLACKLISTED",
                  "LOCAL_INVITATIONS_ONLY"}

FailureCodes == BlockingCodes \cup {"ALREADY_REMOTE_CONTROLLED", "UNKNOWN"}

\* What the remote invite service can answer.
InviteResponses ==
    {[result |-> TRUE, error_code |-> "SUCCESS"]}
        \cup {[result |-> FALSE, error_code |-> c] : c \in FailureCodes}

\* What the transport can do to the call: nothing, or one of the three
\* exceptions invite() catches.
Transports == {"none", "ROSException", "ROSInterruptException", "ServiceException"}

\* What rosservice.get_service_list can do in is_ready_for_action.
Probes == {"found", "absent", "ROSServiceIOException"}

Flags == [invited : BOOLEAN, ready : BOOLEAN, blocking : BOOLEAN, elsewhere : BOOLEAN]

CurrentFlags == [invited |-> is_invited, ready |-> _is_ready_for_action,
                 blocking |-> is_blocking, elsewhere |-> is_invited_elsewhere]

NoCall == [op |-> "none", cancel |-> FALSE, remote |-> FALSE, probed |-> FALSE,
           transport |-> "none", code |-> "none", result |-> FALSE,
           notified |-> FALSE,
           pre |-> [invited |-> FALSE, ready |-> FALSE, blocking |-> FALSE, elsewhere |-> FALSE]]

ClientInit ==
    /\ phase = "new"
    /\ error = "none"
    /\ pulled = {}
    /\ is_invited = FALSE
    /\ _is_ready_for_action = FALSE
    /\ is_blocking = FALSE
    /\ is_invited_elsewhere = FALSE
    /\ client_status = "unset"
    /\ last = NoCall

\* ---- construction -------------------------------------------------------

\* _pull_concert_client (106-129): one pull request for the four rules; a
\* result other than 0 is logged and construction goes on without them.
_pull_concert_client(pullOK) == IF pullOK THEN PulledServices ELSE {}

\* cancel_pulls (131-146): the same request with cancel = True.
cancel_pulls(p) == p \ PulledServices

\* What the five wait_for_service calls at 157-161 can do.
WaitOutcomes == {"ok", "ROSException", "ServiceException"}

\* _init (148-180).  in: what each remote step does.  Result: what _init
\* raised ("none" when it returned) and the rules still pulled afterwards.
\*   wait      the waits at 157-161
\*   platform  the platform_info call at 169 ("ok" or "ServiceException")
\*   versionOK whether the reported version equals ROCON_VERSION (170)
\*   listwait  the wait at 176 ("ok" or "ROSException")
\*   listcall  the list_apps call at 180 ("ok" or "ServiceException")
_init(p, in) ==
    IF in.wait = "ROSException"
    THEN [raised |-> "WaitTimeout", pulled |-> cancel_pulls(p)]            \* 162-164
    ELSE IF in.wait = "ServiceException"
    THEN [raised |-> "WaitServiceException", pulled |-> p]                 \* 165-166: raises before 167
    ELSE IF in.platform # "ok"
    THEN [raised |-> "PlatformInfoCallFailed", pulled |-> p]               \* 169, not caught
    ELSE IF ~in.versionOK
    THEN [raised |-> "VersionMismatch", pulled |-> p]                      \* 170-171
    ELSE IF in.listwait = "ROSException"
    THEN [raised |-> "ListAppsTimeout", pulled |-> cancel_pulls(p)]        \* 177-179
    ELSE IF in.listcall # "ok"
    THEN [raised |-> "ListAppsCallFailed", pulled |-> p]                   \* 180, not caught
    ELSE [raised |-> "none", pulled |-> p]

\* _update (197-241).  Result: what it raised and msg.client_status.
\*   status    the status call at 206 ("ok" or "ServiceException")
\*   remote_controller  whether status.remote_controller names a controller
\*   gwinfo    the remote_gateway_info call at 229
\*   found     whether a gateway of this name is in the answer (235-239)
_update(in, old_status) ==
    IF in.status # "ok"
    THEN [raised |-> "StatusUnavailable", client_status |-> old_status]    \* 207-208
    ELSE LET st == IF in.remote_controller THEN "CONNECTED" ELSE "AVAILABLE"  \* 219-225
         IN  IF in.gwinfo # "ok"
             THEN [raised |-> "StatsUnavailable", client_status |-> st]    \* 230-233
             ELSE IF ~in.found
             THEN [raised |-> "GatewayNotFound", client_status |-> st]     \* 240-241
             ELSE [raised |-> "none", client_status |-> st]

InitInputs == [wait : WaitOutcomes, platform : {"ok", "ServiceException"},
               versionOK : BOOLEAN, listwait : {"ok", "ROSException"},
               listcall : {"ok", "ServiceException"}]

UpdateInputs == [status : {"ok", "ServiceException"}, remote_controller : BOOLEAN,
                 gwinfo : {"ok", "ServiceException", "ROSInterruptException"},
                 found : BOOLEAN]

\* __init__ (51-86): flags set to False, pull, _init, _update.
Construct(pullOK, in, up) ==
    /\ phase = "new"
    /\ LET p0 == _pull_concert_client(pullOK)
           r  == _init(p0, in)
           u  == _update(up, client_status)
           raised == IF r.raised # "none" THEN r.raised ELSE u.raised
       IN  /\ pulled' = r.pulled
           /\ error' = raised
           /\ phase' = IF raised = "none" THEN "live" ELSE "failed"
           /\ client_status' = IF r.raised = "none" THEN u.client_status ELSE client_status
           /\ last' = [NoCall EXCEPT !.op = "construct", !.result = (raised = "none"),
                                     !.pre = CurrentFlags]
    /\ is_invited' = FALSE
    /\ _is_ready_for_action' = FALSE
    /\ is_blocking' = FALSE
    /\ is_invited_elsewhere' = FALSE
    /\ UNCHANGED svcVars

\* to_msg_format (182-195): _update, re-raising what it raises; the object
\* stays usable.
to_msg_format(up) ==
    /\ phase = "live"
    /\ LET u == _update(up, client_status)
       IN  /\ error' = u.raised
           /\ client_status' = u.client_status
           /\ last' = [NoCall EXCEPT !.op = "update", !.result = (u.raised = "none"),
                                     !.pre = CurrentFlags]
    /\ UNCHANGED <<phase, pulled, is_invited, _is_ready_for_action, is_blocking,
                   is_invited_elsewhere>>
    /\ UNCHANGED svcVars

\* ---- invite ---------------------------------------------------------------

\* quiet_abort without the check at 267: a blocked client is asked again.
quiet_abort_NoBlockingCheck(cancel, f) ==
    IF cancel /\ ~f.invited THEN "success" ELSE "proceed"

\* quiet_abort without the check at 265: an uninvite of a client that is
\* not invited goes to the remote.
quiet_abort_NoUninviteCheck(cancel, f) ==
    IF ~cancel /\ f.blocking THEN "failure" ELSE "proceed"

\* The quiet abort checks (264-268): "success" and "failure" return at once,
\* "proceed" goes on to the remote call.
quiet_abort(cancel, f) ==
    IF cancel /\ ~f.invited THEN "success"
    ELSE IF ~cancel /\ f.blocking THEN "failure"
    ELSE "proceed"

\* invite_response with the except branches reporting a refusal by policy
\* instead of CLIENT_CONNECTION_DISRUPTED.
invite_response_DisruptionAsRefusal(tr, remote) ==
    IF tr = "none" THEN remote
    ELSE [result |-> FALSE, error_code |-> "LOCAL_INVITATIONS_ONLY"]

\* The response invite() works with (270-285): the remote's answer, or the
\* synthetic failure built in the three except branches.
invite_response(tr, remote) ==
    IF tr = "none" THEN remote
    ELSE [result |-> FALSE, error_code |-> "CLIENT_CONNECTION_DISRUPTED"]

\* invite_classify without line 288: success leaves is_invited_elsewhere.
invite_classify_KeepElsewhere(cancel, resp, f) ==
    IF resp.result = TRUE
    THEN [flags |-> [f EXCEPT !.invited = ~cancel, !.blocking = FALSE], notified |-> FALSE]
    ELSE IF ~cancel
    THEN IF resp.error_code \in BlockingCodes
         THEN [flags |-> [f EXCEPT !.blocking = TRUE], notified |-> FALSE]
         ELSE IF resp.error_code = "ALREADY_REMOTE_CONTROLLED" /\ ~f.elsewhere
         THEN [flags |-> [f EXCEPT !.elsewhere = TRUE], notified |-> TRUE]
         ELSE [flags |-> f, notified |-> FALSE]
    ELSE [flags |-> f, notified |-> FALSE]

\* invite_classify with the blocked branch (295-301) also dropping the
\* invitation.
invite_classify_BlockUninvites(cancel, resp, f) ==
    IF resp.result = TRUE
    THEN [flags |-> [f EXCEPT !.invited = ~cancel, !.elsewhere = FALSE, !.blocking = FALSE],
          notified |-> FALSE]
    ELSE IF ~cancel
    THEN IF resp.error_code \in BlockingCodes
         THEN [flags |-> [f EXCEPT !.blocking = TRUE, !.invited = FALSE], notified |-> FALSE]
         ELSE IF resp.error_code = "ALREADY_REMOTE_CONTROLLED" /\ ~f.elsewhere
         THEN [flags |-> [f EXCEPT !.elsewhere = TRUE], notified |-> TRUE]
         ELSE [flags |-> f, notified |-> FALSE]
    ELSE [flags |-> f, notified |-> FALSE]

\* invite_classify without the test at 303: every refusal is logged.
invite_classify_AlwaysLogs(cancel, resp, f) ==
    IF resp.result = TRUE
    THEN [flags |-> [f EXCEPT !.invited = ~cancel, !.elsewhere = FALSE, !.blocking = FALSE],
          notified |-> FALSE]
    ELSE IF ~cancel
    THEN IF resp.error_code \in BlockingCodes
         THEN [flags |-> [f EXCEPT !.blocking = TRUE], notified |-> FALSE]
         ELSE IF resp.error_code = "ALREADY_REMOTE_CONTROLLED"
         THEN [flags |-> [f EXCEPT !.elsewhere = TRUE], notified |-> TRUE]
         ELSE [flags |-> f, notified |-> FALSE]
    ELSE [flags |-> f, notified |-> FALSE]

\* The classification of the response (286-310): the flags after the call
\* and whether the "was refused" line (306) was logged.
invite_classify(cancel, resp, f) ==
    IF resp.result = TRUE
    THEN [flags |-> [f EXCEPT !.invited = ~cancel, !.elsewhere = FALSE, !.blocking = FALSE],
          notified |-> FALSE]                                              \* 286-293
    ELSE IF ~cancel
    THEN IF resp.error_code \in BlockingCodes
         THEN [flags |-> [f EXCEPT !.blocking = TRUE], notified |-> FALSE] \* 295-301
         ELSE IF resp.error_code = "ALREADY_REMOTE_CONTROLLED"
         THEN IF ~f.elsewhere
              THEN [flags |-> [f EXCEPT !.elsewhere = TRUE], notified |-> TRUE]  \* 303-306
              ELSE [flags |-> f, notified |-> FALSE]
         ELSE [flags |-> f, notified |-> FALSE]                            \* 307-308
    ELSE [flags |-> f, notified |-> FALSE]                                 \* 309-310

SetFlags(f) ==
    /\ is_invited' = f.invited
    /\ _is_ready_for_action' = f.ready
    /\ is_blocking' = f.blocking
    /\ is_invited_elsewhere' = f.elsewhere

\* invite (243-311).  tr: what the transport does to the call; remote: what
\* the remote answers when the call gets through.
invite(cancel, tr, remote) ==
    /\ phase = "live"
    /\ LET f == CurrentFlags
           q == quiet_abort(cancel, f)
       IN  IF q # "proceed"
           THEN /\ SetFlags(f)
                /\ last' = [NoCall EXCEPT !.op = "invite", !.cancel = cancel,
                                          !.result = (q = "success"), !.pre = f]
           ELSE LET resp == invite_response(tr, remote)
                    c == invite_classify(cancel, resp, f)
                IN  /\ SetFlags(c.flags)
                    /\ last' = [op |-> "invite", cancel |-> cancel, remote |-> TRUE,
                                probed |-> FALSE, transport |-> tr,
                                code |-> resp.error_code, result |-> resp.result,
                                notified |-> c.notified, pre |-> f]
    /\ UNCHANGED <<phase, error, pulled, client_status>>
    /\ UNCHANGED svcVars

\* ---- is_ready_for_action ------------------------------------------------

\* ready_for_action without the latch test at 95-96: every call probes.
ready_for_action_NoLatch(f, probe) ==
    IF ~f.invited THEN [ready |-> f.ready, result |-> FALSE, probed |-> FALSE]
    ELSE IF probe = "found" THEN [ready |-> TRUE, result |-> TRUE, probed |-> TRUE]
    ELSE [ready |-> FALSE, result |-> FALSE, probed |-> TRUE]

\* ready_for_action with the tests at 93 and 95 in the other order.
ready_for_action_LatchFirst(f, probe) ==
    IF f.ready THEN [ready |-> TRUE, result |-> TRUE, probed |-> FALSE]
    ELSE IF ~f.invited THEN [ready |-> f.ready, result |-> FALSE, probed |-> FALSE]
    ELSE IF probe = "found" THEN [ready |-> TRUE, result |-> TRUE, probed |-> TRUE]
    ELSE [ready |-> f.ready, result |-> FALSE, probed |-> TRUE]

\* is_ready_for_action (88-104) as a function of the flags and of what the
\* probe would do: the latch afterwards, the value returned, whether the
\* service list was asked for.
ready_for_action(f, probe) ==
    IF ~f.invited THEN [ready |-> f.ready, result |-> FALSE, probed |-> FALSE]      \* 93-94
    ELSE IF f.ready THEN [ready |-> TRUE, result |-> TRUE, probed |-> FALSE]        \* 95-96
    ELSE IF probe = "ROSServiceIOException"
    THEN [ready |-> f.ready, result |-> FALSE, probed |-> TRUE]                     \* 102-103
    ELSE IF probe = "found"
    THEN [ready |-> TRUE, result |-> TRUE, probed |-> TRUE]                         \* 100-101, 104
    ELSE [ready |-> f.ready, result |-> f.ready, probed |-> TRUE]                   \* 104

is_ready_for_action(probe) ==
    /\ phase = "live"
    /\ LET f == CurrentFlags
           r == ready_for_action(f, probe)
       IN  /\ SetFlags([f EXCEPT !.ready = r.ready])
           /\ last' = [NoCall EXCEPT !.op = "ready", !.result = r.result,
                                     !.probed = r.probed, !.pre = f]
    /\ UNCHANGED <<phase, error, pulled, client_status>>
    /\ UNCHANGED svcVars

ClientNext ==
    \/ \E pullOK \in BOOLEAN, in \in InitInputs, up \in UpdateInputs : Construct(pullOK, in, up)
    \/ \E up \in UpdateInputs : to_msg_format(up)
    \/ \E cancel \in BOOLEAN, tr \in Transports, remote \in InviteResponses :
          invite(cancel, tr, remote)
    \/ \E probe \in Probes : is_ready_for_action(probe)

(***************************************************************************)
(* Properties of ConcertClient                                             *)
(***************************************************************************)

InvitationFlags(f) == <<f.invited, f.blocking, f.elsewhere>>

\* C1: after an invite(cancel = False) that returned True, is_invited holds
\* and is_blocking and is_invited_elsewhere do not, whatever they were.
C1_SuccessfulInvite ==
    (last.op = "invite" /\ ~last.cancel /\ last.result)
        => (is_invited /\ ~is_blocking /\ ~is_invited_elsewhere)

C1_Witness ==
    /\ last.op = "invite" /\ ~last.cancel /\ last.result /\ last.remote
    /\ last.pre.elsewhere /\ ~last.pre.invited
    /\ is_invited /\ ~is_invited_elsewhere

\* C2: an invite() whose remote call met a transport failure returns False
\* and leaves is_invited, is_blocking and is_invited_elsewhere as they were.
C2_TransportFailureFrame ==
    (last.op = "invite" /\ last.transport # "none")
        => (/\ ~last.result
            /\ InvitationFlags(CurrentFlags) = InvitationFlags(last.pre))

C2_Witness ==
    /\ last.op = "invite" /\ last.transport = "ServiceException" /\ ~last.cancel
    /\ last.remote /\ ~last.result
    /\ last.pre.invited /\ last.pre.elsewhere /\ is_invited /\ is_invited_elsewhere

\* C3: an invite(cancel = False) made while is_blocking issues no remote
\* call, returns False and changes no flag.
C3_BlockedInviteAborts ==
    (last.op = "invite" /\ ~last.cancel /\ last.pre.blocking)
        => (~last.remote /\ ~last.result /\ CurrentFlags = last.pre)

C3_Witness ==
    /\ last.op = "invite" /\ ~last.cancel /\ last.pre.blocking
    /\ ~last.remote /\ ~last.result /\ is_blocking

\* C4: an invite(cancel = True) made while not is_invited returns True
\* without a remote call and changes no flag.
C4_UninviteWhenNotInvited ==
    (last.op = "invite" /\ last.cancel /\ ~last.pre.invited)
        => (last.result /\ ~last.remote /\ CurrentFlags = last.pre)

C4_Witness ==
    /\ last.op = "invite" /\ last.cancel /\ ~last.pre.invited
    /\ last.result /\ ~last.remote /\ is_blocking /\ ~is_invited

\* The client is invited and has been seen ready.
ReadyConfirmed == is_invited /\ _is_ready_for_action

\* This step is an invite(cancel = True) that returned True.
UninviteStep == last'.op = "invite" /\ last'.cancel /\ last'.result

\* C5: is_ready_for_action() returns True only with the client invited and
\* the latch set, and from then on, until a step that uninvites, both stay
\* so and every is_ready_for_action() returns True.
C5_ReadyLatch ==
    /\ []((last.op = "ready" /\ last.result) => ReadyConfirmed)
    /\ [][(ReadyConfirmed /\ ~UninviteStep)
            => (ReadyConfirmed' /\ (last'.op = "ready" => last'.result))]_vars

C5_Witness ==
    /\ last.op = "ready" /\ last.result /\ ~last.probed
    /\ last.pre.invited /\ last.pre.ready /\ last.pre.elsewhere

\* C6: is_ready_for_action() called while not is_invited returns False and
\* does not probe, whatever the latch is.
C6_NotInvitedNotReady ==
    (last.op = "ready" /\ ~last.pre.invited) => (~last.result /\ ~last.probed)

C6_Witness ==
    /\ last.op = "ready" /\ ~last.pre.invited /\ last.pre.ready
    /\ ~last.result /\ ~last.probed

\* C7: a construction that failed on the version check holds no pulled
\* rule afterwards.
C7_VersionMismatchReleasesPulls ==
    (phase = "failed" /\ error = "VersionMismatch") => pulled = {}

\* The last call was an invite(cancel = False) that the remote answered
\* with a failure of code c.
Refused(c) ==
    /\ last.op = "invite" /\ ~last.cancel /\ last.remote /\ last.transport = "none"
    /\ ~last.result /\ last.code = c

C19_BlockedNotInvitedAbsorbing ==
    [][(is_blocking /\ ~is_invited)
          => /\ is_blocking' /\ ~is_invited'
             /\ (last'.op = "invite" => ~last'.remote)]_vars

C19_Witness ==
    /\ last.op = "invite" /\ last.cancel /\ last.result /\ ~last.remote
    /\ last.pre.blocking /\ ~last.pre.invited
    /\ is_blocking /\ ~is_invited

(***************************************************************************)
(* ConcertServiceInstance                                                  *)
(***************************************************************************)

\* enable() calls the control thread makes; each starts one worker thread,
\* and worker w's child, when it spawns one, is child w.
MaxEnables == 2

\* Iterations of disable()'s wait loop counted: count is not bounded in the
\* code, and every value from MaxCount on is kept as MaxCount (the code
\* compares count with ForceKillCount only, which is less).
MaxCount == 11

\* Line 78: the iteration of disable()'s loop that kills.
ForceKillCount == 10

Workers == 1..MaxEnables

\* The control thread between calls.  was_enabled is what disable() read at
\* line 64 (enable() does not read the flag before it starts its worker).
Idle == [pc |-> "idle", w |-> 0, count |-> 0, force_kill |-> FALSE, was_enabled |-> FALSE]

\* No call completed.  Beside (success, message):
\*   detail     the exception the message ends with or, for a disable() that
\*              left its loop, which half of the loop condition ended it
\*   launched   whether the call's worker had spawned its child and set
\*              enabled by the time of the return
\*   escalated  whether disable()'s loop was entered ForceKillCount times
\*   killed     whether proc.kill() was called
\*   terminated whether proc.terminate() was called
\*   was_enabled  for a disable(), the value of enabled it read at line 64
NoReturn == [op |-> "none", success |-> FALSE, message |-> "none", detail |-> "none",
             launched |-> FALSE, escalated |-> FALSE, killed |-> FALSE,
             terminated |-> FALSE, was_enabled |-> FALSE]

SvcInit ==
    /\ enabled = FALSE                       \* a fresh ConcertService message
    /\ proc = 0                              \* line 20
    /\ child = [c \in Workers |-> "unborn"]
    /\ enable_error = "unset"                \* not assigned by __init__
    /\ enable_error_message = 0
    /\ shutdown = FALSE
    /\ nenable = 0
    /\ wpc = [w \in Workers |-> "idle"]
    /\ cb = [w \in Workers |-> FALSE]
    /\ ctl = Idle
    /\ ret = NoReturn

\* ---- the child processes and the signals sent to them --------------------

\* What Popen.terminate() / Popen.kill() (send_signal -> os.kill) can do on
\* handle c.  A child that has been waited for has no pid any more: os.kill
\* raises OSError (ESRCH); interpreters that test returncode first do nothing.
SignalOutcomes(c) ==
    IF child[c] = "reaped" THEN {"OSError", "nothing"} ELSE {"sent"}

\* SIGKILL delivered to child c.
Killed(c) == [child EXCEPT ![c] = IF @ = "running" THEN "exited" ELSE @]

\* A running child exits: on its own, or on the SIGTERM it was sent.
ChildExit(c) ==
    /\ child[c] = "running"
    /\ child' = [child EXCEPT ![c] = "exited"]
    /\ UNCHANGED <<enabled, proc, enable_error, enable_error_message, shutdown,
                   nenable, wpc, cb, ctl, ret>>
    /\ UNCHANGED clientVars

\* rospy.signal_shutdown.
Shutdown ==
    /\ ~shutdown
    /\ shutdown' = TRUE
    /\ UNCHANGED <<enabled, proc, child, enable_error, enable_error_message,
                   nenable, wpc, cb, ctl, ret>>
    /\ UNCHANGED clientVars

\* What rospy.sleep can do: return, or raise ROSInterruptException when
\* shutdown was requested (it raises under simulated time only).
SleepOutcomes == IF shutdown THEN {"returned", "ROSInterruptException"} ELSE {"returned"}

\* ---- the worker thread: run() ----------------------------------------------

\* Worker w has spawned its child and executed line 108.
Launched(w) ==
    /\ w \in Workers
    /\ child[w] # "unborn"
    /\ wpc[w] \notin {"idle", "w104", "w107", "w108"}

Goto(w, pc) == wpc' = [wpc EXCEPT ![w] = pc]

\* _enabling, line 104.
W104(w) ==
    /\ wpc[w] = "w104"
    /\ enable_error' = "False"
    /\ Goto(w, "w107")
    /\ UNCHANGED <<enabled, proc, child, enable_error_message, shutdown, nenable, cb, ctl, ret>>
    /\ UNCHANGED clientVars

\* _enabling, lines 105-107: Popen returns a handle, or raises.
W107(w, spawned) ==
    /\ wpc[w] = "w107"
    /\ IF spawned
       THEN /\ child' = [child EXCEPT ![w] = "running"]
            /\ proc' = w
            /\ Goto(w, "w108")
       ELSE /\ Goto(w, "w112")
            /\ UNCHANGED <<child, proc>>
    /\ UNCHANGED <<enabled, enable_error, enable_error_message, shutdown, nenable, cb, ctl, ret>>
    /\ UNCHANGED clientVars

\* _enabling, line 108.
W108(w) ==
    /\ wpc[w] = "w108"
    /\ enabled' = TRUE
    /\ Goto(w, "w93")
    /\ UNCHANGED <<proc, child, enable_error, enable_error_message, shutdown, nenable, cb, ctl, ret>>
    /\ UNCHANGED clientVars

\* _enabling, line 112.
W112(w) ==
    /\ wpc[w] = "w112"
    /\ enable_error' = "True"
    /\ Goto(w, "w113")
    /\ UNCHANGED <<enabled, proc, child, enable_error_message, shutdown, nenable, cb, ctl, ret>>
    /\ UNCHANGED clientVars

\* _enabling, line 113.
W113(w) ==
    /\ wpc[w] = "w113"
    /\ enable_error_message' = w
    /\ Goto(w, "w93")
    /\ UNCHANGED <<enabled, proc, child, enable_error, shutdown, nenable, cb, ctl, ret>>
    /\ UNCHANGED clientVars

\* run, lines 93-94: the test of data.enabled and, when it holds, the callback.
W93(w) ==
    /\ wpc[w] = "w93"
    /\ IF enabled
       THEN /\ cb' = [cb EXCEPT ![w] = TRUE]
            /\ Goto(w, "w116")
       ELSE /\ Goto(w, "done")
            /\ UNCHANGED cb
    /\ UNCHANGED <<enabled, proc, child, enable_error, enable_error_message, shutdown,
                   nenable, ctl, ret>>
    /\ UNCHANGED clientVars

\* _wait_until_terminates, lines 116-118: one evaluation of the loop
\* condition and, when it holds, the sleep.  poll() is on self.proc,
\* whichever child that is by now, and waits for it when it has exited.
\* With shutdown requested the worker is either at the condition, which
\* ends the loop, or in the sleep, which may raise and end the thread.
W116(w, slept) ==
    /\ wpc[w] = "w116"
    /\ slept \in SleepOutcomes
    /\ IF shutdown
       THEN /\ Goto(w, IF slept = "returned" THEN "w97" ELSE "done")
            /\ UNCHANGED child
       ELSE IF child[proc] = "running"
       THEN UNCHANGED <<wpc, child>>
       ELSE /\ child' = [child EXCEPT ![proc] = "reaped"]
            /\ Goto(w, "w97")
    /\ UNCHANGED <<enabled, proc, enable_error, enable_error_message, shutdown,
                   nenable, cb, ctl, ret>>
    /\ UNCHANGED clientVars

\* run, lines 96-98: enabled is cleared and the callback called again.
W97(w) ==
    /\ wpc[w] = "w97"
    /\ enabled' = FALSE
    /\ Goto(w, "done")
    /\ UNCHANGED <<proc, child, enable_error, enable_error_message, shutdown, nenable, cb, ctl, ret>>
    /\ UNCHANGED clientVars

Worker(w) ==
    \/ W104(w)
    \/ \E spawned \in BOOLEAN : W107(w, spawned)
    \/ W108(w)
    \/ W112(w)
    \/ W113(w)
    \/ W93(w)
    \/ \E slept \in {"returned", "ROSInterruptException"} : W116(w, slept)
    \/ W97(w)

\* ---- the control thread: enable() ------------------------------------------

Return(op, success, message, detail, killed) ==
    /\ ret' = [op |-> op, success |-> success, message |-> message, detail |-> detail,
               launched |-> Launched(ctl.w), escalated |-> (ctl.count >= ForceKillCount),
               killed |-> killed,
               terminated |-> (ctl.pc \in {"d70", "d74", "d76"}),
               was_enabled |-> IF ctl.pc = "idle" THEN op = "disable" /\ enabled
                                                  ELSE ctl.was_enabled]
    /\ ctl' = Idle

\* enable, lines 39-44: the worker thread is started.
CallEnable ==
    /\ ctl.pc = "idle"
    /\ nenable < MaxEnables
    /\ nenable' = nenable + 1
    /\ wpc' = [wpc EXCEPT ![nenable + 1] = "w104"]
    /\ ctl' = [Idle EXCEPT !.pc = "e46", !.w = nenable + 1]
    /\ ret' = NoReturn
    /\ UNCHANGED <<enabled, proc, child, enable_error, enable_error_message, shutdown, cb>>
    /\ UNCHANGED clientVars

\* enable, line 46, and 53-58 when the loop is left.
E46 ==
    /\ ctl.pc = "e46"
    /\ IF ~enabled /\ ~shutdown
       THEN /\ ctl' = [ctl EXCEPT !.pc = "e48"]
            /\ UNCHANGED ret
       ELSE Return("enable", TRUE, "Success", "none", FALSE)
    /\ UNCHANGED <<enabled, proc, child, enable_error, enable_error_message, shutdown,
                   nenable, wpc, cb>>
    /\ UNCHANGED clientVars

\* enable, lines 48-50: the sleep, then the read of enable_error.  Whatever
\* is raised is caught at 55.
E48(slept) ==
    /\ ctl.pc = "e48"
    /\ slept \in SleepOutcomes
    /\ IF slept # "returned"
       THEN Return("enable", FALSE, "Error while enabling service", slept, FALSE)
       ELSE IF enable_error = "unset"
       THEN Return("enable", FALSE, "Error while enabling service", "AttributeError", FALSE)
       ELSE IF enable_error = "True"
       THEN /\ ctl' = [ctl EXCEPT !.pc = "e51"]
            /\ UNCHANGED ret
       ELSE /\ ctl' = [ctl EXCEPT !.pc = "e46"]
            /\ UNCHANGED ret
    /\ UNCHANGED <<enabled, proc, child, enable_error, enable_error_message, shutdown,
                   nenable, wpc, cb>>
    /\ UNCHANGED clientVars

SpawnErrorOf(w) == IF w = 1 THEN "spawn error 1" ELSE IF w = 2 THEN "spawn error 2" ELSE "spawn error 3+"

\* enable, line 51: the read of enable_error_message, raised and caught at 55.
E51 ==
    /\ ctl.pc = "e51"
    /\ IF enable_error_message = 0
       THEN Return("enable", FALSE, "Error while enabling service", "AttributeError", FALSE)
       ELSE Return("enable", FALSE, "Error while enabling service", SpawnErrorOf(enable_error_message), FALSE)
    /\ UNCHANGED <<enabled, proc, child, enable_error, enable_error_message, shutdown,
                   nenable, wpc, cb>>
    /\ UNCHANGED clientVars

\* ---- the control thread: disable() -----------------------------------------

\* disable without the test at line 64.
CallDisable_NoEnabledCheck ==
    /\ ctl.pc = "idle"
    /\ ctl' = [Idle EXCEPT !.pc = "d70", !.was_enabled = enabled]
    /\ ret' = NoReturn
    /\ UNCHANGED <<enabled, proc, child, enable_error, enable_error_message, shutdown,
                   nenable, wpc, cb>>
    /\ UNCHANGED clientVars

\* disable, lines 61-67.
CallDisable ==
    /\ ctl.pc = "idle"
    /\ IF enabled = FALSE
       THEN Return("disable", TRUE, "Already disabled", "none", FALSE)
       ELSE /\ ctl' = [Idle EXCEPT !.pc = "d70", !.was_enabled = enabled]
            /\ ret' = NoReturn
    /\ UNCHANGED <<enabled, proc, child, enable_error, enable_error_message, shutdown,
                   nenable, wpc, cb>>
    /\ UNCHANGED clientVars

\* disable writing the flag itself once terminate() has been called.
D70_ClearsEnabled(outcome) ==
    /\ ctl.pc = "d70"
    /\ outcome \in SignalOutcomes(proc)
    /\ IF outcome = "OSError"
       THEN /\ Return("disable", FALSE, "Error while disabling", "OSError", FALSE)
            /\ UNCHANGED enabled
       ELSE /\ ctl' = [ctl EXCEPT !.pc = "d74"]
            /\ enabled' = FALSE
            /\ UNCHANGED ret
    /\ UNCHANGED <<proc, child, enable_error, enable_error_message, shutdown,
                   nenable, wpc, cb>>
    /\ UNCHANGED clientVars

\* disable, lines 70-73: the graceful terminate request.
D70(outcome) ==
    /\ ctl.pc = "d70"
    /\ outcome \in SignalOutcomes(proc)
    /\ IF outcome = "OSError"
       THEN Return("disable", FALSE, "Error while disabling", "OSError", FALSE)
       ELSE /\ ctl' = [ctl EXCEPT !.pc = "d74"]
            /\ UNCHANGED ret
    /\ UNCHANGED <<enabled, proc, child, enable_error, enable_error_message, shutdown,
                   nenable, wpc, cb>>
    /\ UNCHANGED clientVars

\* disable, lines 74-75, and 82-83 when the loop is left.
D74 ==
    /\ ctl.pc = "d74"
    /\ IF enabled /\ ~shutdown
       THEN /\ ctl' = [ctl EXCEPT !.pc = "d76",
                                      !.count = IF @ < MaxCount THEN @ + 1 ELSE @]
            /\ UNCHANGED ret
       ELSE Return("disable", TRUE, IF ctl.force_kill THEN "Force Killed" ELSE "Terminated",
                   IF enabled THEN "shutdown" ELSE "disabled", ctl.force_kill)
    /\ UNCHANGED <<enabled, proc, child, enable_error, enable_error_message, shutdown,
                   nenable, wpc, cb>>
    /\ UNCHANGED clientVars

\* disable, lines 76-81: the sleep and, in iteration ForceKillCount, the kill.
D76(slept, outcome) ==
    /\ ctl.pc = "d76"
    /\ slept \in SleepOutcomes
    /\ IF slept # "returned"
       THEN /\ outcome = "sent"
            /\ Return("disable", FALSE, "Error while disabling", slept, ctl.force_kill)
            /\ UNCHANGED child
       ELSE IF ctl.count # ForceKillCount
       THEN /\ outcome = "sent"
            /\ ctl' = [ctl EXCEPT !.pc = "d74"]
            /\ UNCHANGED <<ret, child>>
       ELSE /\ outcome \in SignalOutcomes(proc)
            /\ IF outcome = "OSError"
               THEN /\ Return("disable", FALSE, "Error while disabling", "OSError", TRUE)
                    /\ UNCHANGED child
               ELSE /\ child' = IF outcome = "sent" THEN Killed(proc) ELSE child
                    /\ ctl' = [ctl EXCEPT !.pc = "d74", !.force_kill = TRUE]
                    /\ UNCHANGED ret
    /\ UNCHANGED <<enabled, proc, enable_error, enable_error_message, shutdown,
                   nenable, wpc, cb>>
    /\ UNCHANGED clientVars

Control ==
    \/ CallEnable
    \/ E46
    \/ \E slept \in {"returned", "ROSInterruptException"} : E48(slept)
    \/ E51
    \/ CallDisable
    \/ \E outcome \in {"sent", "nothing", "OSError"} : D70(outcome)
    \/ D74
    \/ \E slept \in {"returned", "ROSInterruptException"}, outcome \in {"sent", "nothing", "OSError"} :
          D76(slept, outcome)

\* ---- destruction ---------------------------------------------------------

\* __del__, lines 31-32, run when the last reference to the instance is
\* dropped: no call is in progress and no worker thread, whose target is
\* the bound method self.run, is alive.  self.proc is the class attribute
\* None until line 107 has assigned it, and None has no kill().  The
\* instance takes no step afterwards.
__del__(outcome) ==
    /\ ctl.pc = "idle"
    /\ \A w \in Workers : wpc[w] \in {"idle", "done"}
    /\ IF proc = 0
       THEN /\ outcome = "AttributeError"
            /\ UNCHANGED child
       ELSE /\ outcome \in SignalOutcomes(proc)
            /\ child' = IF outcome = "sent" THEN Killed(proc) ELSE child
    /\ ctl' = [Idle EXCEPT !.pc = "deleted"]
    /\ ret' = [NoReturn EXCEPT !.op = "__del__",
                               !.success = (outcome \in {"sent", "nothing"}),
                               !.detail = outcome,
                               !.killed = (proc # 0)]
    /\ UNCHANGED <<enabled, proc, enable_error, enable_error_message, shutdown,
                   nenable, wpc, cb>>
    /\ UNCHANGED clientVars

Destruction == \E outcome \in {"sent", "nothing", "OSError", "AttributeError"} : __del__(outcome)

Environment ==
    \/ \E c \in Workers : ChildExit(c)
    \/ Shutdown

(***************************************************************************)
(* Properties of ConcertServiceInstance                                    *)
(***************************************************************************)

\* C8: a disable() whose loop found the process enabled ForceKillCount times
\* has called proc.kill() and returns "Force Killed"; a disable() whose loop
\* found it disabled earlier has not called proc.kill() and returns
\* "Terminated".
C8_DisableEscalation ==
    (ret.op = "disable" /\ ret.message # "Already disabled")
        => /\ ret.escalated => (ret.killed /\ ret.success /\ ret.message = "Force Killed")
           /\ (~ret.escalated /\ ret.detail = "disabled")
                 => (~ret.killed /\ ret.success /\ ret.message = "Terminated")

\* C9: a worker whose Popen succeeded and that is past line 94 has called
\* the callback there (it calls it at most once: line 94 is not in a loop).
C9_EnabledCallbackOnce ==
    \A w \in Workers :
        (child[w] # "unborn" /\ wpc[w] \in {"w116", "w97", "done"}) => cb[w]

\* C10: an enable() that returned (True, "Success") returned after its
\* worker had spawned the child and set enabled.
C10_SuccessMeansLaunched ==
    (ret.op = "enable" /\ ret.success) => ret.launched

\* C11: a disable() that read enabled == False at line 64 returns
\* (True, "Already disabled") and has called neither proc.terminate() nor
\* proc.kill(); no disable() that read False is past line 67.
C11_AlreadyDisabled ==
    /\ (ret.op = "disable" /\ ~ret.was_enabled)
          => /\ ret.success /\ ret.message = "Already disabled"
             /\ ~ret.terminated /\ ~ret.killed
    /\ ctl.pc \in {"d70", "d74", "d76"} => ctl.was_enabled

\* A disable() that found the flag cleared, after a child was launched,
\* exited and was waited for by the worker, which has finished.
C11_Witness ==
    /\ ret.op = "disable" /\ ~ret.was_enabled /\ ret.message = "Already disabled"
    /\ proc # 0 /\ child[proc] = "reaped" /\ wpc[proc] = "done" /\ ~enabled

\* C12: in every state, enabled implies that proc is the handle of a
\* launched child, and not enabled implies that no child of the instance is
\* running.
C12_EnabledMatchesChild ==
    /\ enabled => (proc # 0 /\ child[proc] # "unborn")
    /\ ~enabled => \A c \in Workers : child[c] # "running"

\* A step of the control thread, inside enable() or disable() or entering one.
ControlStep == ctl' # ctl \/ ret' # ret

\* C13 as claimed: enabled goes from True to False only in a step of a
\* worker, from False to True only in a step of the control thread, and
\* no step of disable() changes it.
C13_SingleWriterPerEdge ==
    [][/\ (enabled /\ ~enabled') => (wpc' # wpc /\ ~ControlStep)
       /\ (~enabled /\ enabled') => (ControlStep /\ wpc' = wpc)
       /\ (ctl.pc \in {"d70", "d74", "d76"} /\ ControlStep) => enabled' = enabled]_vars

\* C13 as the code has it: enabled goes from False to True only in a
\* worker's step over line 108 and from True to False only in a worker's
\* step over line 97; no step of the control thread, in enable() or in
\* disable(), changes it.
C13_WorkerIsOnlyWriter ==
    [][/\ (~enabled /\ enabled')
            => (~ControlStep /\ \E w \in Workers : wpc[w] = "w108" /\ wpc'[w] = "w93")
       /\ (enabled /\ ~enabled')
            => (~ControlStep /\ \E w \in Workers : wpc[w] = "w97" /\ wpc'[w] = "done")
       /\ ControlStep => enabled' = enabled]_vars

\* Both edges taken: an enable() saw the flag set, a later disable() saw it
\* cleared by the worker.
C13_Witness ==
    /\ ret.op = "disable" /\ ret.was_enabled /\ ret.success /\ ret.detail = "disabled"
    /\ ~enabled /\ wpc[1] = "done" /\ child[1] = "reaped"

\* C14: every disable() that found the process enabled (and so went on to
\* line 70) returns.
C14_DisableReturns ==
    (ctl.pc = "d70") ~> (ctl.pc = "idle" /\ ret.op = "disable" /\ ret.was_enabled)

\* A disable() returned after its forced kill of a child that had not
\* exited before it.
C14_Witness ==
    /\ ret.op = "disable" /\ ret.was_enabled /\ ret.escalated /\ ret.killed
    /\ ret.message = "Force Killed" /\ ~enabled

\* C15: once the instance is destroyed, __del__ has raised nothing and no
\* child of the instance is running.
C15_DestroyKillsChild ==
    ctl.pc = "deleted" => (ret.success /\ \A c \in Workers : child[c] # "running")

\* Popen raised in worker w (line 107 took the except branch).
SpawnFailed(w) ==
    child[w] = "unborn" /\ wpc[w] \in {"w112", "w113", "w93", "w116", "w97", "done"}

\* C18: a worker whose Popen raised does not call the callback and goes
\* from line 93 to its end (it never waits on a process or writes enabled),
\* and the enable() that started it (the latest one: worker nenable), once
\* returned, has returned failure with that worker's spawn error.
C18_SpawnFailureReported ==
    \A w \in Workers :
        SpawnFailed(w)
            => /\ ~cb[w]
               /\ wpc[w] \notin {"w116", "w97"}
               /\ (ret.op = "enable" /\ nenable = w)
                     => (~ret.success /\ ret.detail = SpawnErrorOf(w))

\* C20: at most one child of the instance is running, and proc is the
\* handle of the one that is.
C20_SingleChild ==
    /\ Cardinality({c \in Workers : child[c] = "running"}) <= 1
    /\ \A c \in Workers : child[c] = "running" => proc = c

\* C21: with no shutdown requested, every enable() that has started its
\* worker returns.
C21_EnableReturns ==
    (ctl.pc = "e46") ~> ((ctl.pc = "idle" /\ ret.op = "enable") \/ shutdown)

Init == ClientInit /\ SvcInit

Next == ClientNext

Spec == Init /\ [][Next]_vars

SvcNext == Control \/ (\E w \in Workers : Worker(w)) \/ Environment \/ Destruction

SvcSpec == Init /\ [][SvcNext]_vars

\* The steps of the control thread inside a call: a thread that is in
\* enable() or disable() is scheduled again, a caller need not call.
InCall ==
    \/ E46
    \/ \E slept \in {"returned", "ROSInterruptException"} : E48(slept)
    \/ E51
    \/ \E outcome \in {"sent", "nothing", "OSError"} : D70(outcome)
    \/ D74
    \/ \E slept \in {"returned", "ROSInterruptException"}, outcome \in {"sent", "nothing", "OSError"} :
          D76(slept, outcome)

\* Every started thread keeps being scheduled.  Nothing is assumed of the
\* children (a child may never exit on its own or on SIGTERM), of shutdown
\* or of the callers.
SvcFairSpec ==
    /\ SvcSpec
    /\ WF_vars(InCall)
    /\ \A w \in Workers : WF_vars(Worker(w))
====
